---------------------------- MODULE Spec2Model ----------------------------
(***************************************************************************)
(* Model of src/Preprocess.py: PDFToMarkdownConverter (one PDF to one      *)
(* Markdown file, page by page, with two-column detection) and             *)
(* FolderPDFConverter.process_all (the batch loop over a folder).          *)
(*                                                                         *)
(* Strings are sequences of one-character strings, so that str.strip,      *)
(* "\n".join, f-string formatting and the os.path functions are computed   *)
(* character by character.  A block is the 7-tuple PyMuPDF returns,        *)
(* <<x0, y0, x1, y1, text, block_no, block_type>>; Python's b[k] is        *)
(* b[k+1] here.                                                            *)
(***************************************************************************)
EXTENDS Integers, Sequences, FiniteSets, TLC

VARIABLES
    listing,        \* names of the files in the input folder
    decoder,        \* what fitz.open returns for each *.pdf of the folder
    pdf_files,      \* process_all: the list glob.glob returned
    file_idx,       \* process_all: position of the for loop in pdf_files
    pc,             \* "glob", "next_file", "pages", "done", "raised"
    pdf_file_path,  \* converter.pdf_file_path
    doc,            \* converter.doc, a sequence of pages
    page_idx,       \* position of `for page in self.doc`
    md_text,        \* converter.md_text
    page_number,    \* converter.page_number
    fs,             \* the output folder: path -> file
    log,            \* the records Logger has emitted
    raised,         \* the exception leaving process_all, "none" if none
    emitted,        \* the logical pages appended to md_text, in order
    write_attempts, \* the paths open(..., "w") was called with, in order
    fn              \* inputs and results of the pure-function specification

batchVars == <<listing, decoder, pdf_files, file_idx, pc, pdf_file_path, doc,
               page_idx, md_text, page_number, fs, log, raised, emitted,
               write_attempts>>
vars == <<listing, decoder, pdf_files, file_idx, pc, pdf_file_path, doc,
          page_idx, md_text, page_number, fs, log, raised, emitted,
          write_attempts, fn>>

---------------------------------------------------------------------------
(* Bounds of the model *)

\* files in the input folder
MaxDocs == 2
\* pages of a document of a batch
MaxPages == 2
\* raw blocks on the page of a one-page document
MaxBlocks == 5
\* blocks handed to classify_columns / sort_blocks_reading_order alone
MaxFnLen == 3
\* largest x0 and y0 of those blocks
MaxCoord == 1

---------------------------------------------------------------------------
(* Strings *)

\* Python's None in the block_no field, whose other values are >= 0
None == -1

SeqUpTo(S, n) == UNION {[1..k -> S] : k \in 0..n}

\* the characters str.strip() removes that occur in the model's texts
Whitespace == {" ", "\n"}

RECURSIVE LStrip(_)
LStrip(s) ==
    IF s # <<>> /\ Head(s) \in Whitespace THEN LStrip(Tail(s)) ELSE s

RECURSIVE RStrip(_)
RStrip(s) ==
    IF s # <<>> /\ s[Len(s)] \in Whitespace
    THEN RStrip(SubSeq(s, 1, Len(s) - 1))
    ELSE s

Strip(s) == RStrip(LStrip(s))

DigitChar(d) ==
    CASE d = 0 -> "0" [] d = 1 -> "1" [] d = 2 -> "2" [] d = 3 -> "3"
      [] d = 4 -> "4" [] d = 5 -> "5" [] d = 6 -> "6" [] d = 7 -> "7"
      [] d = 8 -> "8" [] d = 9 -> "9"

\* str(n) of a non-negative int, as the f-string formats page_number
RECURSIVE Digits(_)
Digits(n) ==
    IF n < 10 THEN <<DigitChar(n)>>
    ELSE Append(Digits(n \div 10), DigitChar(n % 10))

\* sep.join(texts)
RECURSIVE Join(_, _)
Join(sep, texts) ==
    IF texts = <<>> THEN <<>>
    ELSE IF Len(texts) = 1 THEN texts[1]
    ELSE texts[1] \o sep \o Join(sep, Tail(texts))

---------------------------------------------------------------------------
(* Paths: os.path and glob on POSIX, as process_all and process use them *)

PDF_FILE_PATH ==
    <<".", "/", "i", "n", "p", "u", "t", "_", "d", "a", "t", "a", "/",
      "d", "o", "c", "u", "m", "e", "n", "t", "s", "/">>

MD_FOLDER_PATH ==
    <<".", "/", "p", "r", "e", "p", "r", "o", "c", "e", "s", "s", "e", "d",
      "_", "d", "a", "t", "a", "/",
      "d", "o", "c", "u", "m", "e", "n", "t", "s", "/">>

PdfExt == <<".", "p", "d", "f">>
MdExt == <<".", "m", "d">>

\* s.rfind(c), 1-based; 0 when c does not occur
RFind(s, c) ==
    LET hits == {i \in 1..Len(s) : s[i] = c}
    IN  IF hits = {} THEN 0 ELSE CHOOSE i \in hits : \A j \in hits : j <= i

\* os.path.join(a, p)
PathJoin(a, p) ==
    IF p # <<>> /\ Head(p) = "/" THEN p
    ELSE IF a = <<>> \/ a[Len(a)] = "/" THEN a \o p
    ELSE a \o <<"/">> \o p

\* os.path.basename(p)
BaseName(p) == SubSeq(p, RFind(p, "/") + 1, Len(p))

RECURSIVE RStripSlash(_)
RStripSlash(s) ==
    IF s # <<>> /\ s[Len(s)] = "/"
    THEN RStripSlash(SubSeq(s, 1, Len(s) - 1))
    ELSE s

\* os.path.dirname(p)
DirName(p) ==
    LET head == SubSeq(p, 1, RFind(p, "/"))
    IN  IF head # <<>> /\ \E i \in 1..Len(head) : head[i] # "/"
        THEN RStripSlash(head)
        ELSE head

\* os.path.splitext(p)[0]: the extension starts at the last dot, unless only
\* dots lie between the last separator and that dot
SplitExtRoot(p) ==
    LET sepIndex == RFind(p, "/")
        dotIndex == RFind(p, ".")
    IN  IF dotIndex > sepIndex
           /\ \E k \in (sepIndex + 1)..(dotIndex - 1) : p[k] # "."
        THEN SubSeq(p, 1, dotIndex - 1)
        ELSE p

EndsWith(s, suffix) ==
    /\ Len(s) >= Len(suffix)
    /\ SubSeq(s, Len(s) - Len(suffix) + 1, Len(s)) = suffix

\* fnmatch of a file name against "*.pdf", after glob has dropped the hidden
\* names (a pattern that does not start with a dot matches none of them)
GlobMatches(name) == /\ name # <<>>
                     /\ Head(name) # "."
                     /\ EndsWith(name, PdfExt)

\* the set glob.glob(os.path.join(folder, "*.pdf")) lists, in some order
GlobPaths(folder, names) ==
    {PathJoin(DirName(PathJoin(folder, <<"*">> \o PdfExt)), n) :
        n \in {m \in names : GlobMatches(m)}}

\* the path process() writes to (lines 204-205)
OutputPath(pdf_path, md_folder) ==
    PathJoin(md_folder, SplitExtRoot(BaseName(pdf_path)) \o MdExt)

---------------------------------------------------------------------------
(* The methods of PDFToMarkdownConverter that compute without state *)

\* KeepsBlock without the test of block_no
KeepsBlock_AnyNumber(b) == b[7] = 0 /\ Strip(b[5]) # <<>>

\* extract_blocks: the blocks of page.get_text("blocks") with a block_no
\* (b[5]), of type text (b[6] == 0) and with text left after strip (b[4])
KeepsBlock(b) == b[6] # None /\ b[7] = 0 /\ Strip(b[5]) # <<>>

extract_blocks(page) == SelectSeq(page.blocks, KeepsBlock)

\* IsLeft with <= for <
IsLeft_TieLeft(block, page_width) == block[1] + block[3] <= page_width

\* center < page_width / 2 with center = (x0 + x1) / 2.  Halving is exact in
\* binary floating point, so the comparison is that of x0 + x1 with page_width.
IsLeft(block, page_width) == block[1] + block[3] < page_width

\* classify_columns: the loop over blocks appending to left_blocks or to
\* right_blocks; the result is the pair <<left_blocks, right_blocks>>
RECURSIVE ClassifyLoop(_, _, _, _)
ClassifyLoop(blocks, page_width, left_blocks, right_blocks) ==
    IF blocks = <<>> THEN <<left_blocks, right_blocks>>
    ELSE IF IsLeft(Head(blocks), page_width)
    THEN ClassifyLoop(Tail(blocks), page_width,
                      Append(left_blocks, Head(blocks)), right_blocks)
    ELSE ClassifyLoop(Tail(blocks), page_width,
                      left_blocks, Append(right_blocks, Head(blocks)))

classify_columns(blocks, page_width) ==
    ClassifyLoop(blocks, page_width, <<>>, <<>>)

\* KeyLess with <= for < on the whole key
KeyLess_OrEqual(a, b) == a[2] < b[2] \/ (a[2] = b[2] /\ a[1] <= b[1])

\* key=lambda b: (b[1], b[0]), compared as Python compares tuples
KeyLess(a, b) == a[2] < b[2] \/ (a[2] = b[2] /\ a[1] < b[1])

\* one element put into a sorted list behind every element whose key is not
\* greater than its own
RECURSIVE InsertByKey(_, _)
InsertByKey(sorted, b) ==
    IF sorted = <<>> THEN <<b>>
    ELSE IF KeyLess(b, Head(sorted)) THEN <<b>> \o sorted
    ELSE <<Head(sorted)>> \o InsertByKey(Tail(sorted), b)

\* sort_blocks_reading_order: sorted() is a stable sort by the key
RECURSIVE SortLoop(_, _)
SortLoop(blocks, sorted) ==
    IF blocks = <<>> THEN sorted
    ELSE SortLoop(Tail(blocks), InsertByKey(sorted, Head(blocks)))

sort_blocks_reading_order(blocks) == SortLoop(blocks, <<>>)

\* join_block_texts
HasText(b) == Strip(b[5]) # <<>>

join_block_texts(blocks) ==
    LET kept == SelectSeq(blocks, HasText)
    IN  Join(<<"\n">>, [i \in 1..Len(kept) |-> Strip(kept[i][5])])

\* is_two_column with `or` for `and`
is_two_column_Either(left_blocks, right_blocks) ==
    Len(left_blocks) >= 2 \/ Len(right_blocks) >= 2

\* the test of line 181
is_two_column(left_blocks, right_blocks) ==
    Len(left_blocks) >= 2 /\ Len(right_blocks) >= 2

\* PageBlock with one newline after the text
PageBlock_OneNewline(number, text) ==
    <<"#", "#", " ", "ペ", "ー", "ジ", " ">> \o Digits(number)
        \o <<"\n", "\n">> \o text \o <<"\n">>

\* f"## ページ {self.page_number}\n\n{text}\n\n"
PageBlock(number, text) ==
    <<"#", "#", " ", "ペ", "ー", "ジ", " ">> \o Digits(number)
        \o <<"\n", "\n">> \o text \o <<"\n", "\n">>

\* NextNumber adding 2
NextNumber_Twice(number) == number + 2

\* self.page_number += 1
NextNumber(number) == number + 1

\* SingleBody taken from the extracted blocks
SingleBody_FromBlocks(page) == join_block_texts(extract_blocks(page))

\* full_text = page.get_text().strip()
SingleBody(page) == Strip(page.full_text)

\* one pass of the body of `for page in self.doc` that raises nothing, from
\* md_text = text and page_number = number: the new md_text and page_number,
\* and the logical pages appended, as records [number, body]
PageStep(page, text, number) ==
    LET blocks == extract_blocks(page)
        cols == classify_columns(blocks, page.width)
    IN  IF is_two_column(cols[1], cols[2])
        THEN LET left_blocks == sort_blocks_reading_order(cols[1])
                 right_blocks == sort_blocks_reading_order(cols[2])
                 left_text == join_block_texts(left_blocks)
                 right_text == join_block_texts(right_blocks)
                 text1 == text \o PageBlock(number, left_text)
                 number1 == NextNumber(number)
                 text2 == text1 \o PageBlock(number1, right_text)
                 number2 == NextNumber(number1)
             IN  [md_text |-> text2, page_number |-> number2,
                  pages |-> <<[number |-> number, body |-> left_text],
                              [number |-> number1, body |-> right_text]>>]
        ELSE LET full_text == SingleBody(page)
             IN  [md_text |-> text \o PageBlock(number, full_text),
                  page_number |-> NextNumber(number),
                  pages |-> <<[number |-> number, body |-> full_text]>>]

---------------------------------------------------------------------------
(* The input folder and the documents the decoder returns *)

NameA == <<"a">> \o PdfExt
NameB == <<"b", ".", "c">> \o PdfExt
NameHidden == PdfExt

NameSet == {NameA, NameB, NameHidden}

\* pages of the documents of a batch: no text at all, one column, two columns
EmptyPage == [width |-> 4, blocks |-> <<>>, full_text |-> <<>>]

OneColumnPage ==
    [width |-> 4,
     blocks |-> << <<0, 0, 3, 1, <<"x">>, 0, 0>> >>,
     full_text |-> <<" ", "x", "\n">>]

\* two blocks in each half, out of reading order, and one without a number
TwoColumnPage ==
    [width |-> 4,
     blocks |-> << <<0, 1, 1, 2, <<"b", "\n">>, 0, 0>>,
                   <<2, 0, 4, 1, <<"c">>, 1, 0>>,
                   <<0, 0, 1, 1, <<"a">>, 2, 0>>,
                   <<0, 0, 1, 1, <<"n">>, None, 0>>,
                   <<2, 1, 4, 2, <<"d">>, 3, 0>> >>,
     full_text |-> <<"b", "\n", "c", "\n", "a", "\n", "d", "\n">>]

BatchPages == {EmptyPage, OneColumnPage, TwoColumnPage}

BatchDocs == SeqUpTo(BatchPages, MaxPages)

\* raw blocks of the page of a one-page document: two in the left half, one
\* whose centre is the middle of the page, an image and a blank text
RawBlocks ==
    { <<0, 1, 1, 2, <<" ", "a">>, 0, 0>>,
      <<0, 0, 1, 1, <<"b">>, 1, 0>>,
      <<1, 0, 3, 1, <<"c", "\n">>, 2, 0>>,
      <<3, 0, 4, 1, <<"i">>, 3, 1>>,
      <<0, 0, 1, 1, <<" ">>, 4, 0>> }

FullTexts == {<<>>, <<" ", "x", "\n">>}

OnePageDocs ==
    {<<[width |-> 4, blocks |-> b, full_text |-> t]>> :
        b \in SeqUpTo(RawBlocks, MaxBlocks), t \in FullTexts}

PdfNames(names) == {n \in names : GlobMatches(n)}

\* the orders in which glob can list a set of paths
Orders(S) ==
    {f \in [1..Cardinality(S) -> S] :
        \A i, j \in 1..Cardinality(S) : i # j => f[i] # f[j]}

\* a file of the output folder: one that holds text, and one that holds no
\* more than a part of text, from its start
FileWhole(text) == [text |-> text, whole |-> TRUE]
FileCut(text) == [text |-> text, whole |-> FALSE]

LogRec(level, event, path) == [level |-> level, event |-> event, path |-> path]

NoPath == <<>>

FnIdle == [stage |-> "idle", blocks |-> <<>>, page_width |-> 0,
           left_blocks |-> <<>>, right_blocks |-> <<>>, sorted |-> <<>>]

---------------------------------------------------------------------------
(* The batch: FolderPDFConverter.process_all *)

Init ==
    /\ listing \in {S \in SUBSET NameSet : Cardinality(S) <= MaxDocs}
    /\ \/ decoder \in [PdfNames(listing) -> BatchDocs]
       \/ listing = {NameA} /\ decoder \in [listing -> OnePageDocs]
    /\ pdf_files = <<>>
    /\ file_idx = 0
    /\ pc = "glob"
    /\ pdf_file_path = NoPath
    /\ doc = <<>>
    /\ page_idx = 1
    /\ md_text = <<>>
    /\ page_number = 1
    /\ fs = <<>>
    /\ log = <<>>
    /\ raised = "none"
    /\ emitted = <<>>
    /\ write_attempts = <<>>
    /\ fn = FnIdle

\* line 233: pdf_files = glob.glob(...)
Glob ==
    /\ pc = "glob"
    /\ pdf_files' \in Orders(GlobPaths(PDF_FILE_PATH, listing))
    /\ pc' = "next_file"
    /\ UNCHANGED <<listing, decoder, file_idx, pdf_file_path, doc, page_idx,
                   md_text, page_number, fs, log, raised, emitted,
                   write_attempts, fn>>

\* the two Logger.info calls at the top of the loop body (lines 235-236)
LoopLog(path) ==
    <<LogRec("INFO", "separator", NoPath), LogRec("INFO", "processing", path)>>

\* lines 234-237 and 40-50: the next file is opened
OpenOk ==
    /\ pc = "next_file"
    /\ file_idx < Len(pdf_files)
    /\ LET path == pdf_files[file_idx + 1]
       IN  /\ file_idx' = file_idx + 1
           /\ pdf_file_path' = path
           /\ doc' = decoder[BaseName(path)]
           /\ log' = log \o LoopLog(path) \o <<LogRec("INFO", "opened", path)>>
    /\ md_text' = <<>>
    /\ page_number' = 1
    /\ page_idx' = 1
    /\ emitted' = <<>>
    /\ pc' = "pages"
    /\ UNCHANGED <<listing, decoder, pdf_files, fs, raised, write_attempts, fn>>

\* lines 234-237 and 40-48: fitz.open raises; __init__ logs and re-raises, and
\* process_all has no handler
OpenRaises ==
    /\ pc = "next_file"
    /\ file_idx < Len(pdf_files)
    /\ LET path == pdf_files[file_idx + 1]
       IN  /\ file_idx' = file_idx + 1
           /\ log' = log \o LoopLog(path)
                         \o <<LogRec("ERROR", "open failed", path)>>
    /\ raised' = "open"
    /\ pc' = "raised"
    /\ UNCHANGED <<listing, decoder, pdf_files, pdf_file_path, doc, page_idx,
                   md_text, page_number, fs, emitted, write_attempts, fn>>

\* the Logger.debug calls of extract_blocks and classify_columns for one page
PageLog ==
    <<LogRec("DEBUG", "blocks", NoPath), LogRec("DEBUG", "extracted", NoPath),
      LogRec("DEBUG", "page_width", NoPath),
      LogRec("DEBUG", "left_blocks", NoPath),
      LogRec("DEBUG", "right_blocks", NoPath)>>

\* lines 172-202: one page of the document
ProcessPage ==
    /\ pc = "pages"
    /\ page_idx <= Len(doc)
    /\ LET step == PageStep(doc[page_idx], md_text, page_number)
       IN  /\ md_text' = step.md_text
           /\ page_number' = step.page_number
           /\ emitted' = emitted \o
                  [k \in 1..Len(step.pages) |->
                      [page |-> page_idx, number |-> step.pages[k].number,
                       body |-> step.pages[k].body]]
    /\ log' = log \o PageLog
    /\ page_idx' = page_idx + 1
    /\ UNCHANGED <<listing, decoder, pdf_files, file_idx, pc, pdf_file_path,
                   doc, fs, raised, write_attempts, fn>>

\* ExtractBlocksRaises writing what md_text holds before the exception leaves
ExtractBlocksRaises_Flushing ==
    /\ pc = "pages"
    /\ page_idx <= Len(doc)
    /\ fs' = (OutputPath(pdf_file_path, MD_FOLDER_PATH) :> FileWhole(md_text))
              @@ fs
    /\ raised' = "get_text"
    /\ pc' = "raised"
    /\ UNCHANGED <<listing, decoder, pdf_files, file_idx, pdf_file_path, doc,
                   page_idx, md_text, page_number, log, emitted,
                   write_attempts, fn>>

\* line 75: page.get_text("blocks") raises; nothing in process or in
\* process_all handles it
ExtractBlocksRaises ==
    /\ pc = "pages"
    /\ page_idx <= Len(doc)
    /\ raised' = "get_text"
    /\ pc' = "raised"
    /\ UNCHANGED <<listing, decoder, pdf_files, file_idx, pdf_file_path, doc,
                   page_idx, md_text, page_number, fs, log, emitted,
                   write_attempts, fn>>

PageIsTwoColumn(page) ==
    LET cols == classify_columns(extract_blocks(page), page.width)
    IN  is_two_column(cols[1], cols[2])

\* line 200: page.get_text() raises on a page taken as single-column
GetTextRaises ==
    /\ pc = "pages"
    /\ page_idx <= Len(doc)
    /\ ~PageIsTwoColumn(doc[page_idx])
    /\ log' = log \o PageLog
    /\ raised' = "get_text"
    /\ pc' = "raised"
    /\ UNCHANGED <<listing, decoder, pdf_files, file_idx, pdf_file_path, doc,
                   page_idx, md_text, page_number, fs, emitted,
                   write_attempts, fn>>

\* lines 204-211: the loop over the pages is over and the file is written
WriteOk ==
    /\ pc = "pages"
    /\ page_idx > Len(doc)
    /\ LET preprocessed_path == OutputPath(pdf_file_path, MD_FOLDER_PATH)
       IN  /\ fs' = (preprocessed_path :> FileWhole(md_text)) @@ fs
           /\ write_attempts' = Append(write_attempts, preprocessed_path)
           /\ log' = Append(log, LogRec("INFO", "written", preprocessed_path))
    /\ pc' = "next_file"
    /\ UNCHANGED <<listing, decoder, pdf_files, file_idx, pdf_file_path, doc,
                   page_idx, md_text, page_number, raised, emitted, fn>>

\* what a failed open(path, "w") / f.write can leave at path: the folder as
\* it was (open failed), or a file cut somewhere before the end of text
FailedWrites(path, text) == {fs, (path :> FileCut(text)) @@ fs}

\* lines 204-214: open or write raises; process logs and re-raises, and
\* process_all has no handler
WriteRaises ==
    /\ pc = "pages"
    /\ page_idx > Len(doc)
    /\ LET preprocessed_path == OutputPath(pdf_file_path, MD_FOLDER_PATH)
       IN  /\ fs' \in FailedWrites(preprocessed_path, md_text)
           /\ write_attempts' = Append(write_attempts, preprocessed_path)
           /\ log' = Append(log,
                        LogRec("ERROR", "write failed", preprocessed_path))
    /\ raised' = "write"
    /\ pc' = "raised"
    /\ UNCHANGED <<listing, decoder, pdf_files, file_idx, pdf_file_path, doc,
                   page_idx, md_text, page_number, emitted, fn>>

\* line 234: pdf_files is exhausted and process_all returns
Finish ==
    /\ pc = "next_file"
    /\ file_idx = Len(pdf_files)
    /\ pc' = "done"
    /\ UNCHANGED <<listing, decoder, pdf_files, file_idx, pdf_file_path, doc,
                   page_idx, md_text, page_number, fs, log, raised, emitted,
                   write_attempts, fn>>

Next ==
    \/ Glob
    \/ OpenOk
    \/ OpenRaises
    \/ ProcessPage
    \/ ExtractBlocksRaises
    \/ GetTextRaises
    \/ WriteOk
    \/ WriteRaises
    \/ Finish

Spec == Init /\ [][Next]_vars

---------------------------------------------------------------------------
(* classify_columns and sort_blocks_reading_order applied to the blocks of  *)
(* any page: a block at each corner <<x0, y0>>, two units wide, numbered    *)
(* by its place on the page as PyMuPDF does                                 *)

FnCorners == (0..MaxCoord) \X (0..MaxCoord)

FnBlocksOf(corners) ==
    [i \in 1..Len(corners) |->
        <<corners[i][1], corners[i][2], corners[i][1] + 2, corners[i][2] + 1,
          <<"t">>, i - 1, 0>>]

FnInputs == {FnBlocksOf(c) : c \in SeqUpTo(FnCorners, MaxFnLen)}

FnWidths == 1..(2 * MaxCoord + 3)

FnInit ==
    /\ \E b \in FnInputs, w \in FnWidths :
           fn = [stage |-> "input", blocks |-> b, page_width |-> w,
                 left_blocks |-> <<>>, right_blocks |-> <<>>, sorted |-> <<>>]
    /\ listing = {}
    /\ decoder = <<>>
    /\ pdf_files = <<>>
    /\ file_idx = 0
    /\ pc = "glob"
    /\ pdf_file_path = NoPath
    /\ doc = <<>>
    /\ page_idx = 1
    /\ md_text = <<>>
    /\ page_number = 1
    /\ fs = <<>>
    /\ log = <<>>
    /\ raised = "none"
    /\ emitted = <<>>
    /\ write_attempts = <<>>

\* line 177: left_blocks, right_blocks = self.classify_columns(blocks, width)
FnClassify ==
    /\ fn.stage = "input"
    /\ LET cols == classify_columns(fn.blocks, fn.page_width)
       IN  fn' = [fn EXCEPT !.stage = "classified",
                            !.left_blocks = cols[1],
                            !.right_blocks = cols[2]]
    /\ UNCHANGED batchVars

\* lines 185-186: self.sort_blocks_reading_order(blocks)
FnSort ==
    /\ fn.stage = "classified"
    /\ fn' = [fn EXCEPT !.stage = "sorted",
                        !.sorted = sort_blocks_reading_order(fn.blocks)]
    /\ UNCHANGED batchVars

FnNext == FnClassify \/ FnSort

SpecFn == FnInit /\ [][FnNext]_vars

---------------------------------------------------------------------------
(* What the claims speak of, stated without the methods above *)

\* s without its leading and trailing whitespace
Trimmed(s) ==
    LET inked == {i \in 1..Len(s) : s[i] \notin Whitespace}
    IN  IF inked = {} THEN <<>>
        ELSE SubSeq(s, CHOOSE i \in inked : \A j \in inked : i <= j,
                       CHOOSE i \in inked : \A j \in inked : j <= i)

\* the places, in a page's raw blocks, of the fragments the extraction keeps
PassingPlaces(page) ==
    {j \in 1..Len(page.blocks) :
        /\ page.blocks[j][7] = 0
        /\ page.blocks[j][6] # None
        /\ Trimmed(page.blocks[j][5]) # <<>>}

\* those of them in the left ("L") or in the right ("R") column
ColumnPlaces(page, side) ==
    {j \in PassingPlaces(page) :
        (page.blocks[j][1] + page.blocks[j][3] < page.width) <=> (side = "L")}

TwoColumnLayout(page) ==
    /\ Cardinality(ColumnPlaces(page, "L")) >= 2
    /\ Cardinality(ColumnPlaces(page, "R")) >= 2

\* place j comes before place k in reading order: by y0, then x0, then place
ReadsBefore(page, j, k) ==
    LET a == page.blocks[j]
        b == page.blocks[k]
    IN  \/ a[2] < b[2]
        \/ a[2] = b[2] /\ a[1] < b[1]
        \/ a[2] = b[2] /\ a[1] = b[1] /\ j < k

\* the places of S in reading order
InReadingOrder(page, S) ==
    [r \in 1..Cardinality(S) |->
        CHOOSE j \in S :
            Cardinality({k \in S : ReadsBefore(page, k, j)}) = r - 1]

RECURSIVE NewlineJoined(_)
NewlineJoined(texts) ==
    IF texts = <<>> THEN <<>>
    ELSE IF Len(texts) = 1 THEN texts[1]
    ELSE NewlineJoined(SubSeq(texts, 1, Len(texts) - 1))
             \o <<"\n">> \o texts[Len(texts)]

\* the trimmed texts of a column's fragments, in reading order
ColumnTexts(page, side) ==
    LET order == InReadingOrder(page, ColumnPlaces(page, side))
    IN  [r \in 1..Len(order) |-> Trimmed(page.blocks[order[r]][5])]

\* the pages of the open document the loop has gone through
ProcessedPages == 1..(page_idx - 1)

\* the places in emitted of the logical pages of physical page i
EmittedFor(i) == {k \in 1..Len(emitted) : emitted[k].page = i}

\* "## <word> <number>\n\n<body>\n\n" for each logical page, in order
RECURSIVE DocumentText(_, _)
DocumentText(pages, word) ==
    IF pages = <<>> THEN <<>>
    ELSE <<"#", "#", " ">> \o word \o <<" ">> \o Digits(Head(pages).number)
             \o <<"\n", "\n">> \o Head(pages).body \o <<"\n", "\n">>
             \o DocumentText(Tail(pages), word)

\* the file of the batch process() has last returned from without raising
LastWritten ==
    IF pc \in {"next_file", "done"} /\ file_idx >= 1
    THEN {pdf_files[file_idx]}
    ELSE {}

\* {source_base_name}.md in the output folder, for a listed file name
ArtifactOf(name) ==
    MD_FOLDER_PATH \o SubSeq(name, 1, Len(name) - Len(PdfExt)) \o MdExt

SourceName(path) == CHOOSE n \in listing : PDF_FILE_PATH \o n = path

---------------------------------------------------------------------------
(* C1 *)

\* C1: in every state the k-th logical page emitted for the open document
\* carries number k, and page_number is 1 + (single-column pages gone
\* through) + 2 * (two-column pages gone through); so after the last page it
\* is 1 + singles + 2 * doubles of the whole document.
C1_PageNumbersGapFree ==
    /\ \A k \in 1..Len(emitted) : emitted[k].number = k
    /\ page_number = Len(emitted) + 1
    /\ page_number =
          1 + Cardinality({i \in ProcessedPages : ~TwoColumnLayout(doc[i])})
            + 2 * Cardinality({i \in ProcessedPages : TwoColumnLayout(doc[i])})

\* a document mixing both layouts has been gone through to its end
C1_Witness ==
    /\ pc = "pages"
    /\ page_idx = Len(doc) + 1
    /\ \E i, j \in ProcessedPages :
          TwoColumnLayout(doc[i]) /\ ~TwoColumnLayout(doc[j])
    /\ page_number = 4

---------------------------------------------------------------------------
(* C2 *)

\* C2: when process_all has ended, by returning or by an exception, every
\* file of the batch has been taken up (a failed document does not keep the
\* documents after it from being processed).
C2_BatchSurvivesFailure ==
    pc \in {"done", "raised"} => file_idx = Len(pdf_files)

---------------------------------------------------------------------------
(* C3 *)

\* C3: no output path is opened for writing twice; a document's output is
\* opened for writing only once all its pages have been gone through; and
\* when get_text has raised on a page, the loop stands at that page, no write
\* of the document's output was attempted and no file of it exists.
C3_WriteOnceAfterAllPages ==
    /\ \A i, j \in 1..Len(write_attempts) :
          i # j => write_attempts[i] # write_attempts[j]
    /\ \A p \in DOMAIN fs : \E i \in 1..Len(write_attempts) : write_attempts[i] = p
    /\ pdf_file_path # NoPath =>
          LET out == ArtifactOf(SourceName(pdf_file_path))
              attempted == \E i \in 1..Len(write_attempts) : write_attempts[i] = out
          IN  /\ attempted => page_idx = Len(doc) + 1
              /\ raised = "get_text" =>
                    /\ page_idx <= Len(doc)
                    /\ ~attempted
                    /\ out \notin DOMAIN fs
                    /\ \A k \in 1..Len(emitted) : emitted[k].page < page_idx

\* get_text raised on the second page of a document, after the first page
\* had gone into md_text
C3_Witness ==
    /\ raised = "get_text"
    /\ page_idx = 2
    /\ md_text # <<>>
    /\ ArtifactOf(SourceName(pdf_file_path)) \notin DOMAIN fs

---------------------------------------------------------------------------
(* C4 *)

HeaderWordEn == <<"P", "a", "g", "e">>
HeaderWordJa == <<"ペ", "ー", "ジ">>

OutputIs(word) ==
    \A path \in LastWritten :
        LET out == ArtifactOf(SourceName(path))
        IN  /\ out \in DOMAIN fs
            /\ fs[out].whole
            /\ fs[out].text = DocumentText(emitted, word)

\* C4 as claimed: the file process() has written is {source_base_name}.md and
\* holds, in logical-page order, "## Page {number}\n\n{body}\n\n" per page.
C4_OutputTextPage == OutputIs(HeaderWordEn)

\* C4 as amended: the same with the header word the code writes, "ページ".
C4_OutputText == OutputIs(HeaderWordJa)

\* a file whose name holds a second dot was written with three logical pages
C4_Witness ==
    /\ LastWritten = {PDF_FILE_PATH \o NameB}
    /\ Len(emitted) = 3
    /\ ArtifactOf(NameB) \in DOMAIN fs

---------------------------------------------------------------------------
(* C5 *)

\* C5: after classify_columns, left_blocks is the input without the blocks
\* whose x0 + x1 is not below page_width, right_blocks is the input without
\* the blocks whose x0 + x1 is below it (both in input order), and every
\* input block is in exactly one of the two, once.
C5_ClassifyPartitions ==
    fn.stage \in {"classified", "sorted"} =>
        LET goesLeft(b) == b[1] + b[3] < fn.page_width
            goesRight(b) == ~goesLeft(b)
            times(b, s) == Cardinality({k \in 1..Len(s) : s[k] = b})
        IN  /\ fn.left_blocks = SelectSeq(fn.blocks, goesLeft)
            /\ fn.right_blocks = SelectSeq(fn.blocks, goesRight)
            /\ Len(fn.left_blocks) + Len(fn.right_blocks) = Len(fn.blocks)
            /\ \A i \in 1..Len(fn.blocks) :
                  LET b == fn.blocks[i]
                  IN  /\ times(b, fn.left_blocks) + times(b, fn.right_blocks) = 1
                      /\ times(b, fn.left_blocks) = 1 <=> goesLeft(b)

\* three blocks were classified, some to the left and some to the right,
\* among these one whose centre is the middle of the page
C5_Witness ==
    /\ fn.stage = "classified"
    /\ Len(fn.blocks) = 3
    /\ fn.left_blocks # <<>>
    /\ \E k \in 1..Len(fn.right_blocks) :
          fn.right_blocks[k][1] + fn.right_blocks[k][3] = fn.page_width

---------------------------------------------------------------------------
(* C6 *)

\* C6: every page gone through has put two logical pages into the document
\* if both groups the classifier returned for it hold at least 2 fragments,
\* and one logical page otherwise.
C6_TwoColumnIffBothGroups ==
    \A i \in ProcessedPages :
        LET cols == classify_columns(extract_blocks(doc[i]), doc[i].width)
            both == Len(cols[1]) >= 2 /\ Len(cols[2]) >= 2
        IN  /\ Cardinality(EmittedFor(i)) = IF both THEN 2 ELSE 1
            /\ Len(cols[1]) = Cardinality(ColumnPlaces(doc[i], "L"))
            /\ Len(cols[2]) = Cardinality(ColumnPlaces(doc[i], "R"))

\* a page with three fragments on the left and one on the right went through
\* as a single-column page
C6_Witness ==
    \E i \in ProcessedPages :
        /\ Cardinality(ColumnPlaces(doc[i], "L")) >= 3
        /\ Cardinality(ColumnPlaces(doc[i], "R")) = 1
        /\ Cardinality(EmittedFor(i)) = 1

---------------------------------------------------------------------------
(* C7 *)

\* C7: the result of sort_blocks_reading_order holds every input block as
\* often as the input does, its (y0, x0) pairs never decrease, and blocks
\* with the same (y0, x0) stand in their input order (block_no is the place
\* in the input).
C7_SortStable ==
    fn.stage = "sorted" =>
        LET times(b, s) == Cardinality({k \in 1..Len(s) : s[k] = b})
        IN  /\ Len(fn.sorted) = Len(fn.blocks)
            /\ \A i \in 1..Len(fn.blocks) :
                  times(fn.blocks[i], fn.sorted) = times(fn.blocks[i], fn.blocks)
            /\ \A i, j \in 1..Len(fn.sorted) :
                  i < j =>
                      LET a == fn.sorted[i]
                          b == fn.sorted[j]
                      IN  /\ a[2] <= b[2]
                          /\ a[2] = b[2] => a[1] <= b[1]
                          /\ (a[2] = b[2] /\ a[1] = b[1]) => a[6] < b[6]

\* an input out of reading order with two blocks at the same (y0, x0) was
\* sorted
C7_Witness ==
    /\ fn.stage = "sorted"
    /\ fn.sorted # fn.blocks
    /\ \E i, j \in 1..Len(fn.blocks) :
          /\ i < j
          /\ fn.blocks[i][1] = fn.blocks[j][1]
          /\ fn.blocks[i][2] = fn.blocks[j][2]

---------------------------------------------------------------------------
(* C8 *)

\* C8: whenever an exception has left the batch, the last record logged is
\* an error-level record (every fatal error is logged at error level before
\* it is re-raised).
C8_FatalErrorsLogged ==
    pc = "raised" =>
        /\ raised \in {"open", "get_text", "write"}
        /\ log # <<>>
        /\ log[Len(log)].level = "ERROR"

---------------------------------------------------------------------------
(* C9 *)

\* C9: every single-column page gone through has put exactly one logical
\* page into the document, whose body is the page's full text trimmed, and
\* the number after it (of the next logical page, or page_number if there is
\* none yet) is its number plus 1.
C9_SinglePageFullText ==
    \A i \in ProcessedPages :
        ~TwoColumnLayout(doc[i]) =>
            /\ Cardinality(EmittedFor(i)) = 1
            /\ \A k \in EmittedFor(i) :
                  /\ emitted[k].body = Trimmed(doc[i].full_text)
                  /\ IF k < Len(emitted)
                     THEN emitted[k + 1].number = emitted[k].number + 1
                     ELSE page_number = emitted[k].number + 1

\* a page without blocks and without text went through: one logical page
\* with an empty body, and the counter moved from 1 to 2
C9_Witness ==
    /\ page_idx = 2
    /\ doc[1].blocks = <<>>
    /\ doc[1].full_text = <<>>
    /\ Len(emitted) = 1
    /\ emitted[1].body = <<>>
    /\ page_number = 2

---------------------------------------------------------------------------
(* C10 *)

\* C10: every two-column page gone through has put exactly two logical
\* pages into the document, next to each other and numbered N and N + 1; the
\* body of the first is the trimmed texts of the kept fragments of the left
\* column in reading order joined by "\n", that of the second the same for
\* the right column, and each holds at least 2 texts, none of them empty.
C10_TwoColumnBodies ==
    \A i \in ProcessedPages :
        TwoColumnLayout(doc[i]) =>
            /\ Cardinality(EmittedFor(i)) = 2
            /\ \E k \in EmittedFor(i) :
                  /\ k + 1 \in EmittedFor(i)
                  /\ emitted[k + 1].number = emitted[k].number + 1
                  /\ emitted[k].body = NewlineJoined(ColumnTexts(doc[i], "L"))
                  /\ emitted[k + 1].body = NewlineJoined(ColumnTexts(doc[i], "R"))
            /\ \A side \in {"L", "R"} :
                  /\ Len(ColumnTexts(doc[i], side)) >= 2
                  /\ \A r \in 1..Len(ColumnTexts(doc[i], side)) :
                        ColumnTexts(doc[i], side)[r] # <<>>

\* a two-column page went through whose raw blocks held one the extraction
\* drops and whose left column was not in reading order
C10_Witness ==
    \E i \in ProcessedPages :
        /\ TwoColumnLayout(doc[i])
        /\ PassingPlaces(doc[i]) # 1..Len(doc[i].blocks)
        /\ \E j, k \in ColumnPlaces(doc[i], "L") :
              j < k /\ ReadsBefore(doc[i], k, j)
        /\ Cardinality(EmittedFor(i)) = 2

===========================================================================
